---- MODULE Spec2Model ----
(***************************************************************************)
(* Turn-taking core of the multi-agent practice-conversation server:       *)
(* ChatManager (session turn controller), Orchestrator (turn decision      *)
(* engine), ConversationMemory (conversation log), the streamed text       *)
(* provider and the speech renderer, seen from the websocket handler.      *)
(*                                                                         *)
(* A text is a sequence of one-character strings, so that the string and   *)
(* regular-expression operations of the source are computed, not assumed.  *)
(***************************************************************************)
EXTENDS Integers, Sequences, FiniteSets, TLC

VARIABLES
    sessions,   \* ChatManager.sessions: session id -> session object (0: none)
    objs,       \* the session objects ever stored (closures keep them alive)
    memories,   \* ConversationMemory.memories: session id -> message array (0: none)
    arrays,     \* the message arrays ever created
    creating,   \* createSession calls suspended in generateAgents
    timers,     \* pending setTimeout(continueConversation) callbacks per session id
    turns,      \* continueConversation calls that passed the busy guard
    emitted,    \* events handed to the transport callbacks by the last step
    lastOp,     \* the handler or callback that made the last step
    acked,      \* per session object: agents whose playback ack was accepted
    budget,     \* inputs the environment may still send
    deepgram,   \* TTSService.deepgram is set (the process has a speech API key)
    fnIn,       \* input of the function under study (function specifications)
    fnOut       \* its result

vars == <<sessions, objs, memories, arrays, creating, timers, turns, emitted,
          lastOp, acked, budget, deepgram, fnIn, fnOut>>

ctlVars == <<sessions, objs, memories, arrays, creating, timers, turns, emitted,
             lastOp, acked, budget, deepgram>>

-----------------------------------------------------------------------------
(* Characters and strings                                                  *)

Whitespace == {" ", "\n", "\t"}

NonWordChars == Whitespace \cup {":", "[", "]", "-", "!", ".", ","}

IsWordChar(c) == c \notin NonWordChars

LowerAlpha == <<"a","b","c","d","e","f","g","h","i","j","k","l","m",
                "n","o","p","q","r","s","t","u","v","w","x","y","z">>

UpperAlpha == <<"A","B","C","D","E","F","G","H","I","J","K","L","M",
                "N","O","P","Q","R","S","T","U","V","W","X","Y","Z">>

toUpperCaseChar(c) ==
    IF \E i \in DOMAIN LowerAlpha : LowerAlpha[i] = c
    THEN UpperAlpha[CHOOSE i \in DOMAIN LowerAlpha : LowerAlpha[i] = c]
    ELSE c

toLowerCaseChar(c) ==
    IF \E i \in DOMAIN UpperAlpha : UpperAlpha[i] = c
    THEN LowerAlpha[CHOOSE i \in DOMAIN UpperAlpha : UpperAlpha[i] = c]
    ELSE c

toUpperCase(t) == [i \in 1..Len(t) |-> toUpperCaseChar(t[i])]

toLowerCase(t) == [i \in 1..Len(t) |-> toLowerCaseChar(t[i])]

SetMin(S) == CHOOSE x \in S : \A y \in S : x <= y

SetMax(S) == CHOOSE x \in S : \A y \in S : x >= y

\* t with its first n characters dropped
DropFirst(t, n) == SubSeq(t, n + 1, Len(t))

\* length of the longest prefix of t made of whitespace (a greedy \s*)
wsRun(t) ==
    IF \E i \in 1..Len(t) : t[i] \notin Whitespace
    THEN SetMin({i \in 1..Len(t) : t[i] \notin Whitespace}) - 1
    ELSE Len(t)

\* length of the longest prefix of t made of word characters (a greedy [\w_]+)
wordRun(t) ==
    IF \E i \in 1..Len(t) : ~IsWordChar(t[i])
    THEN SetMin({i \in 1..Len(t) : ~IsWordChar(t[i])}) - 1
    ELSE Len(t)

trimStart(t) == DropFirst(t, wsRun(t))

trimEnd(t) ==
    IF \E i \in 1..Len(t) : t[i] \notin Whitespace
    THEN SubSeq(t, 1, SetMax({i \in 1..Len(t) : t[i] \notin Whitespace}))
    ELSE <<>>

trim(t) == trimEnd(trimStart(t))

startsWith(t, p) == Len(t) >= Len(p) /\ SubSeq(t, 1, Len(p)) = p

includes(t, p) == \E i \in 1..(Len(t) - Len(p) + 1) : SubSeq(t, i, i + Len(p) - 1) = p

kEND == <<"E","N","D",":">>

kUSER == <<"U","S","E","R",":">>

kAGENT == <<"A","G","E","N","T",":">>

\* /^USER:?\s*$/i
userTurnPattern(t) ==
    LET u  == toUpperCase(t)
        w  == <<"U","S","E","R">>
        r  == DropFirst(u, Len(w))
        r2 == IF r # <<>> /\ Head(r) = ":" THEN Tail(r) ELSE r
    IN  startsWith(u, w) /\ wsRun(r2) = Len(r2)

\* /^AGENT:([\w_]+)[\s\n]*(.*)$/s : does it match, group 1, group 2
agentMatch(t) == startsWith(t, kAGENT) /\ wordRun(DropFirst(t, Len(kAGENT))) > 0

agentMatchId(t) ==
    LET r == DropFirst(t, Len(kAGENT)) IN SubSeq(r, 1, wordRun(r))

agentMatchBody(t) ==
    LET r == DropFirst(t, Len(kAGENT)) IN trimStart(DropFirst(r, wordRun(r)))

\* replace(/^\s*\n+/, '')
stripLeadingNewlines(t) ==
    LET nl == {j \in 1..wsRun(t) : t[j] = "\n"}
    IN  IF nl = {} THEN t ELSE DropFirst(t, SetMax(nl))

\* length of a match of /\[[^\]]+\]:\s*/ at the start of t, 0 if none
labelMatchLen(t) ==
    IF t = <<>> \/ Head(t) # "[" THEN 0
    ELSE LET closes == {j \in 1..Len(t) : t[j] = "]"}
         IN  IF closes = {} THEN 0
             ELSE LET j == SetMin(closes)
                  IN  IF j > 2 /\ j < Len(t) /\ t[j + 1] = ":"
                      THEN j + 1 + wsRun(DropFirst(t, j + 1))
                      ELSE 0

\* replace(/\[[^\]]+\]:\s*/g, '')
RECURSIVE removeLabels(_)
removeLabels(t) ==
    IF t = <<>> THEN <<>>
    ELSE IF labelMatchLen(t) > 0
         THEN removeLabels(DropFirst(t, labelMatchLen(t)))
         ELSE <<Head(t)>> \o removeLabels(Tail(t))

\* length of a match of /USER:\s*/i at the start of t, 0 if none
userMatchLen(t) ==
    IF Len(t) >= Len(kUSER) /\ toUpperCase(SubSeq(t, 1, Len(kUSER))) = kUSER
    THEN Len(kUSER) + wsRun(DropFirst(t, Len(kUSER)))
    ELSE 0

\* replace(/^USER:\s*/i, '')
removeLeadingUser(t) == DropFirst(t, userMatchLen(t))

\* replace(/\s*USER:\s*$/i, '')
removeTrailingUser(t) ==
    LET ks == {k \in 1..Len(t) : userMatchLen(DropFirst(t, k - 1)) = Len(t) - k + 1}
    IN  IF ks = {} THEN t
        ELSE trimEnd(SubSeq(t, 1, SetMin(ks) - 1))

\* replace(/\bUSER:\s*/gi, '') on t, whose left neighbour is a word character or not
RECURSIVE removeAllUserFrom(_, _)
removeAllUserFrom(t, afterWord) ==
    IF t = <<>> THEN <<>>
    ELSE IF ~afterWord /\ userMatchLen(t) > 0
         THEN removeAllUserFrom(DropFirst(t, userMatchLen(t)), FALSE)
         ELSE <<Head(t)>> \o removeAllUserFrom(Tail(t), IsWordChar(Head(t)))

removeAllUser(t) == removeAllUserFrom(t, FALSE)

\* group 1 of /^(.*?)(?:\n?END:.*)?$/s
messageBeforeEnd(t) ==
    LET stops == {p \in 0..Len(t) :
                    \/ p = Len(t)
                    \/ startsWith(DropFirst(t, p), kEND)
                    \/ startsWith(DropFirst(t, p), <<"\n">> \o kEND)}
    IN  SubSeq(t, 1, SetMin(stops))

-----------------------------------------------------------------------------
(* Orchestrator: the turn decision engine                                  *)

\* JavaScript null / undefined for a text, and for an agent id
Null == <<"null">>

NoAgent == <<>>

UserSpeaker == <<"u","s","e","r">>

EndSpeaker == <<"e","n","d">>

Decision(speaker, response, shouldEnd) ==
    [speaker |-> speaker, response |-> response, shouldEnd |-> shouldEnd]

\* agents.findIndex(a => a.id === id), 0-based, -1 when there is none
findIndex(agents, id) ==
    IF \E i \in DOMAIN agents : agents[i].id = id
    THEN SetMin({i \in DOMAIN agents : agents[i].id = id}) - 1
    ELSE -1

\* a fallback that forgets who spoke last and always opens with the first entry
fallbackDecisionFirstOnly(agents, history) ==
    IF Len(agents) = 0 THEN Decision(UserSpeaker, Null, FALSE)
    ELSE Decision(agents[1].id, Null, FALSE)

fallbackDecision(agents, history) ==
    IF Len(agents) = 0 THEN Decision(UserSpeaker, Null, FALSE)
    ELSE LET spoke == {i \in DOMAIN history :
                          history[i].role = "assistant" /\ history[i].aiId # NoAgent}
         IN  IF spoke # {}
             THEN LET lastAgentId == history[SetMax(spoke)].aiId
                      lastIndex   == findIndex(agents, lastAgentId)
                      nextIndex   == (lastIndex + 1) % Len(agents)
                  IN  Decision(agents[nextIndex + 1].id, Null, FALSE)
             ELSE Decision(agents[1].id, Null, FALSE)

\* the cleaning of the body of an AGENT: response
cleanAgentResponse(body) ==
    LET r1 == trim(stripLeadingNewlines(trim(body)))
        r2 == trim(removeLabels(r1))
        r3 == trim(removeLeadingUser(r2))
        r4 == trim(removeTrailingUser(r3))
    IN  trim(removeAllUser(r4))

\* the agents whose id or name occurs in the text, ignoring case
namedAgents(agents, t) ==
    {i \in DOMAIN agents :
        \/ includes(toLowerCase(t), toLowerCase(agents[i].id))
        \/ includes(toLowerCase(t), toLowerCase(agents[i].name))}

\* the parsing of the provider's text
parseDecision(response, agents, fullHistory) ==
    LET trimmedResponse == trim(response)
        agentId         == agentMatchId(trimmedResponse)
        agentResponse   == cleanAgentResponse(agentMatchBody(trimmedResponse))
        named           == namedAgents(agents, trimmedResponse)
    IN  IF startsWith(trimmedResponse, kEND) \/ trimmedResponse = <<"E","N","D">>
        THEN Decision(EndSpeaker, Null, FALSE)
        ELSE IF userTurnPattern(trimmedResponse)
        THEN Decision(UserSpeaker, Null, FALSE)
        ELSE IF toUpperCase(trim(trimmedResponse)) \in {<<"U","S","E","R">>, kUSER}
        THEN Decision(UserSpeaker, Null, FALSE)
        ELSE IF agentMatch(trimmedResponse)
        THEN IF agentResponse = <<>>
                \/ toUpperCase(trim(agentResponse)) \in {<<"U","S","E","R">>, kUSER}
             THEN fallbackDecision(agents, fullHistory)
             ELSE IF includes(agentResponse, kEND)
                     \/ includes(trimmedResponse, <<"\n">> \o kEND)
             THEN Decision(agentId, trim(messageBeforeEnd(agentResponse)), TRUE)
             ELSE IF \E i \in DOMAIN agents : agents[i].id = agentId
             THEN Decision(agentId, agentResponse, FALSE)
             ELSE fallbackDecision(agents, fullHistory)
        ELSE IF named # {}
        THEN Decision(agents[SetMin(named)].id, trim(removeLabels(trimmedResponse)), FALSE)
        ELSE fallbackDecision(agents, fullHistory)

\* What createChatCompletion hands back: a text, a null content, or a throw
ProviderText(t) == [kind |-> "text", text |-> t]

ProviderNull == [kind |-> "null", text |-> <<>>]

ProviderThrow == [kind |-> "throw", text |-> <<>>]

\* an exception leaving the try block
Thrown == [threw |-> TRUE]

\* the try block: createChatCompletion may throw, and response.trim() throws a
\* TypeError on a null content
decideTry(outcome, agents, fullHistory) ==
    IF outcome.kind = "text"
    THEN parseDecision(outcome.text, agents, fullHistory)
    ELSE Thrown

\* a decision engine without its catch block
decideAndGenerateResponseNoCatch(outcome, agents, fullHistory, historyAtCatch) ==
    decideTry(outcome, agents, fullHistory)

\* fullHistory is the array read before the provider call; the catch block
\* reads the session's messages again
decideAndGenerateResponse(outcome, agents, fullHistory, historyAtCatch) ==
    IF decideTry(outcome, agents, fullHistory) = Thrown
    THEN fallbackDecision(agents, historyAtCatch)
    ELSE decideTry(outcome, agents, fullHistory)

-----------------------------------------------------------------------------
(* The world of the controller specifications                              *)

MaxTurns == 2

MaxUserMsgs == 1

MaxCreates == 1

MaxStreamChunks == 1

MaxAudioChunks == 2

\* turns of a run of the process that has no speech API key
MaxTurnsNoKey == 4

\* messages of the history handed to the decision engine, after the system message
MaxHistory == 2

SessionIds == {"s1"}

Al == [id |-> <<"A","l","_","C">>, name |-> <<"A","l">>, gender |-> "female"]

Bo == [id |-> <<"B","o","_","M">>, name |-> <<"B","o">>, gender |-> "male"]

\* what generateAgents may resolve to
GeneratedRosters == {<<Al, Bo>>}

\* what the client may name in audio_playback_complete
AckIds == {Al.id, Bo.id}

txtHi == <<"h","i">>

txtUserTurn == kUSER

txtEnd == kEND

txtGarbage == <<"g","a","r","b","a","g","e">>

txtAgent(a) == kAGENT \o a.id \o <<"\n">> \o txtHi

txtAgentEnd(a) == kAGENT \o a.id \o <<"\n", "b","y","e", "\n">> \o kEND

\* what the provider may answer to the decision request
DecisionOutcomes ==
    {ProviderText(txtUserTurn), ProviderText(txtEnd), ProviderText(txtGarbage),
     ProviderText(txtAgent(Al)),
     ProviderText(txtAgentEnd(Al)), ProviderThrow}

StreamChunkTexts == {txtHi}

UserTexts == {<<"o","k">>}

-----------------------------------------------------------------------------
(* ConversationMemory                                                      *)

Message(role, content, aiId) == [role |-> role, content |-> content, aiId |-> aiId]

systemContent == <<"s","y","s">>

\* getMessages(sessionId) on a given state of the two maps
messagesOf(mem, arr, sid) == IF mem[sid] = 0 THEN <<>> ELSE arr[mem[sid]]

getMessages(sid) == messagesOf(memories, arrays, sid)

\* initializeSession: a new array holding the system message replaces any other
initializeSession(sid) ==
    /\ arrays' = Append(arrays, <<Message("system", systemContent, NoAgent)>>)
    /\ memories' = [memories EXCEPT ![sid] = Len(arrays) + 1]

\* addUserMessage / addAssistantMessage: push on the session's array, or on a
\* new one when the session has none, and store it
pushMessage(sid, msg) ==
    IF memories[sid] # 0
    THEN /\ arrays' = [arrays EXCEPT ![memories[sid]] = Append(@, msg)]
         /\ UNCHANGED memories
    ELSE /\ arrays' = Append(arrays, <<msg>>)
         /\ memories' = [memories EXCEPT ![sid] = Len(arrays) + 1]

\* a log that records what the user said only when the controller is free
addUserMessageWhenIdle(sid, content) ==
    IF sessions[sid] # 0 /\ ~objs[sessions[sid]].isProcessing
    THEN pushMessage(sid, Message("user", content, NoAgent))
    ELSE UNCHANGED <<memories, arrays>>

addUserMessage(sid, content) == pushMessage(sid, Message("user", content, NoAgent))

addAssistantMessage(sid, content, aiId) ==
    pushMessage(sid, Message("assistant", content, aiId))

\* a deletion that drops every log
clearAllSessions(sid) ==
    /\ memories' = [id \in DOMAIN memories |-> 0]
    /\ UNCHANGED arrays

clearSession(sid) ==
    /\ memories' = [memories EXCEPT ![sid] = 0]
    /\ UNCHANGED arrays

-----------------------------------------------------------------------------
(* Events and ghost records                                                *)

\* an event handed to a session object's callbacks (sink: the object), or a
\* reply of handleMessage to the calling socket (sink 0)
Ev(type, aiId, sink) == [type |-> type, aiId |-> aiId, sink |-> sink, audio |-> "none"]

AudioEv(aiId, sink, audio) ==
    [type |-> "ai_audio_chunk", aiId |-> aiId, sink |-> sink, audio |-> audio]

Op(name, sid, turn, aiId) == [name |-> name, sid |-> sid, turn |-> turn, aiId |-> aiId]

-----------------------------------------------------------------------------
(* ChatManager: session objects                                            *)

\* the object createSession stores; waitingForAudioComplete and
\* currentSpeakingAgentId are not set yet (undefined)
newSession(sid, agents) ==
    [sid |-> sid, agents |-> agents, isProcessing |-> FALSE,
     waitingForAudioComplete |-> FALSE, currentSpeakingAgentId |-> NoAgent]

\* a guard that forgets the wait for the playback ack
busyProcessingOnly(session) == session.isProcessing

\* the two guards at the head of continueConversation
busy(session) == session.isProcessing \/ session.waitingForAudioComplete

\* the flags once the turn's text and audio are started
awaitingAck(session, agentId) ==
    [session EXCEPT !.waitingForAudioComplete = TRUE,
                    !.currentSpeakingAgentId = agentId]

\* the flags when the decision asked to end the conversation
endedSession(session) ==
    [session EXCEPT !.waitingForAudioComplete = FALSE,
                    !.currentSpeakingAgentId = NoAgent,
                    !.isProcessing = FALSE]

\* an ack that leaves the current speaker in place
ackedSessionKeepsSpeaker(session) ==
    [session EXCEPT !.waitingForAudioComplete = FALSE,
                    !.isProcessing = FALSE]

\* the flags when the awaited playback ack is accepted
ackedSession(session) ==
    [session EXCEPT !.waitingForAudioComplete = FALSE,
                    !.currentSpeakingAgentId = NoAgent,
                    !.isProcessing = FALSE]

\* an ack that arms two timers
scheduleTriggerTwice(tm, sid) == [tm EXCEPT ![sid] = @ + 2]

\* setTimeout(() => continueConversation(sessionId), 500)
scheduleTrigger(tm, sid) == [tm EXCEPT ![sid] = @ + 1]

\* a continueConversation call that passed the guards and awaits the decision
newTurn(sid, obj, hist) ==
    [sid |-> sid, obj |-> obj, hist |-> hist, pc |-> "deciding",
     decision |-> Decision(NoAgent, Null, FALSE), fullResponse |-> <<>>,
     nChunks |-> 0, streamFailed |-> FALSE,
     conn |-> "none", flushed |-> FALSE, ttsTimer |-> FALSE,
     firstAudioChunk |-> TRUE, ttsFirstAudioSent |-> FALSE, nAudio |-> 0,
     nAudioEnd |-> 0]

\* the array the turn's decision holds as fullHistory
fullHistoryOf(trn) == IF trn.hist = 0 THEN <<>> ELSE arrays[trn.hist]

\* would continueConversation(sid) pass its guards now
passesGuards(sid) == sessions[sid] # 0 /\ ~busy(objs[sessions[sid]])

\* continueConversation up to its first suspension, the memory map being mem
continueConversation(sid, mem) ==
    IF passesGuards(sid)
    THEN /\ objs' = [objs EXCEPT ![sessions[sid]].isProcessing = TRUE]
         /\ turns' = Append(turns, newTurn(sid, sessions[sid], mem[sid]))
    ELSE UNCHANGED <<objs, turns>>

\* continueConversation from the completion notice on: ai_response_end, the
\* wait for the playback ack, and the end of the conversation if decided
finishTurn(k, trn, objs1, ev) ==
    LET o       == trn.obj
        agentId == trn.decision.speaker
        ending  == trn.decision.speaker = EndSpeaker \/ trn.decision.shouldEnd
        waiting == awaitingAck(objs1[o], agentId)
    IN  /\ objs' = [objs1 EXCEPT ![o] = IF ending THEN endedSession(waiting) ELSE waiting]
        /\ turns' = [turns EXCEPT ![k] = [trn EXCEPT !.pc = "returned"]]
        /\ emitted' = ev \o <<Ev("ai_response_end", agentId, o)>>
                         \o (IF ending THEN <<Ev("conversation_ended", NoAgent, o)>>
                                       ELSE <<>>)

\* a turn that starts the speech renderer without logging the utterance
afterTextNoLog(k, trn, objs1, ev) ==
    /\ UNCHANGED <<memories, arrays>>
    /\ IF trim(trn.fullResponse) = <<>>
       THEN finishTurn(k, [trn EXCEPT !.nAudioEnd = @ + 1], objs1,
                       ev \o <<Ev("ai_audio_end", trn.decision.speaker, trn.obj)>>)
       ELSE IF ~deepgram
       THEN finishTurn(k, trn, objs1, ev)
       ELSE /\ objs' = objs1
            /\ turns' = [turns EXCEPT
                           ![k] = [trn EXCEPT !.pc = "ttsOpening", !.conn = "opening"]]
            /\ emitted' = ev

\* continueConversation once the text is settled: the log entry, then
\* streamTextToSpeech up to its first suspension
afterText(k, trn, objs1, ev) ==
    LET o       == trn.obj
        agentId == trn.decision.speaker
    IN  /\ addAssistantMessage(trn.sid, trn.fullResponse, agentId)
        /\ IF trim(trn.fullResponse) = <<>>
           THEN finishTurn(k, [trn EXCEPT !.nAudioEnd = @ + 1], objs1,
                           ev \o <<Ev("ai_audio_end", agentId, o)>>)
           ELSE IF ~deepgram
           THEN finishTurn(k, trn, objs1, ev)
           ELSE /\ objs' = objs1
                /\ turns' = [turns EXCEPT
                               ![k] = [trn EXCEPT !.pc = "ttsOpening", !.conn = "opening"]]
                /\ emitted' = ev

-----------------------------------------------------------------------------
(* Steps: websocket commands, REST deletion, timers, provider callbacks    *)

\* a creation that sets up the log before it looks at the fields
rejectCreationAfterInit(sid) ==
    /\ initializeSession(sid)
    /\ emitted' = <<Ev("error", NoAgent, 0)>>
    /\ UNCHANGED <<creating, budget>>

\* start_session without scenario, userName or userRole: the error reply
rejectCreation(sid) ==
    /\ emitted' = <<Ev("error", NoAgent, 0)>>
    /\ UNCHANGED <<memories, arrays, creating, budget>>

\* start_session: the field check, initializeSession, then generateAgents
StartSession(sid, fieldsOk) ==
    /\ budget.creates > 0
    /\ IF fieldsOk
       THEN /\ initializeSession(sid)
            /\ creating' = [creating EXCEPT ![sid] = @ + 1]
            /\ budget' = [budget EXCEPT !.creates = @ - 1]
            /\ emitted' = <<>>
       ELSE rejectCreation(sid)
    /\ lastOp' = Op(IF fieldsOk THEN "start_session" ELSE "start_session_rejected",
                    sid, 0, NoAgent)
    /\ UNCHANGED <<sessions, objs, timers, turns, acked, deepgram, fnIn, fnOut>>

\* generateAgents resolved with a roster: the session is stored, the first
\* trigger scheduled
AgentsGenerated(sid, agents) ==
    /\ creating[sid] > 0
    /\ creating' = [creating EXCEPT ![sid] = @ - 1]
    /\ objs' = Append(objs, newSession(sid, agents))
    /\ acked' = Append(acked, {})
    /\ sessions' = [sessions EXCEPT ![sid] = Len(objs) + 1]
    /\ timers' = scheduleTrigger(timers, sid)
    /\ emitted' = <<Ev("session_created", NoAgent, 0)>>
    /\ lastOp' = Op("agents_generated", sid, 0, NoAgent)
    /\ UNCHANGED <<memories, arrays, turns, budget, deepgram, fnIn, fnOut>>

\* generateAgents threw, or returned no agent
AgentsFailed(sid) ==
    /\ creating[sid] > 0
    /\ creating' = [creating EXCEPT ![sid] = @ - 1]
    /\ emitted' = <<Ev("error", NoAgent, 0), Ev("error", NoAgent, 0)>>
    /\ lastOp' = Op("agents_failed", sid, 0, NoAgent)
    /\ UNCHANGED <<sessions, objs, memories, arrays, timers, turns, acked, budget,
                   deepgram, fnIn, fnOut>>

\* DELETE /sessions/:sessionId
DeleteSession(sid) ==
    /\ sessions[sid] # 0
    /\ sessions' = [sessions EXCEPT ![sid] = 0]
    /\ clearSession(sid)
    /\ emitted' = <<>>
    /\ lastOp' = Op("deleteSession", sid, 0, NoAgent)
    /\ UNCHANGED <<objs, creating, timers, turns, acked, budget, deepgram, fnIn, fnOut>>

\* a scheduled trigger fires
TimerFires(sid) ==
    /\ timers[sid] > 0
    /\ passesGuards(sid) => Len(turns) < budget.turns
    /\ timers' = [timers EXCEPT ![sid] = @ - 1]
    /\ continueConversation(sid, memories)
    /\ emitted' = <<>>
    /\ lastOp' = Op("timer", sid, IF passesGuards(sid) THEN Len(turns) + 1 ELSE 0, NoAgent)
    /\ UNCHANGED <<sessions, memories, arrays, creating, acked, budget, deepgram,
                   fnIn, fnOut>>

\* message: the handler's session check, then processUserMessage
UserMessage(sid, content) ==
    /\ budget.msgs > 0
    /\ passesGuards(sid) => Len(turns) < budget.turns
    /\ IF sessions[sid] = 0
       THEN /\ emitted' = <<Ev("error", NoAgent, 0)>>
            /\ UNCHANGED <<memories, arrays, objs, turns, budget>>
       ELSE /\ emitted' = <<Ev("ai_thinking", NoAgent, sessions[sid])>>
            /\ addUserMessage(sid, content)
            /\ continueConversation(sid, memories')
            /\ budget' = [budget EXCEPT !.msgs = @ - 1]
    /\ lastOp' = Op(IF sessions[sid] = 0 THEN "message_rejected" ELSE "message", sid,
                    IF passesGuards(sid) THEN Len(turns) + 1 ELSE 0, NoAgent)
    /\ UNCHANGED <<sessions, creating, timers, acked, deepgram, fnIn, fnOut>>

\* an ack accepted whoever it names
awaitedAckAnyAgent(session, aiId) == session.waitingForAudioComplete

\* the test of onAudioPlaybackComplete: is this the ack the session waits for
awaitedAck(session, aiId) ==
    session.waitingForAudioComplete /\ session.currentSpeakingAgentId = aiId

\* audio_playback_complete: the handler's session check, then
\* onAudioPlaybackComplete
AudioPlaybackComplete(sid, aiId) ==
    /\ IF sessions[sid] = 0
       THEN /\ emitted' = <<Ev("error", NoAgent, 0)>>
            /\ UNCHANGED <<objs, timers, acked>>
       ELSE LET o == sessions[sid] IN
            /\ emitted' = <<>>
            /\ IF awaitedAck(objs[o], aiId)
               THEN /\ objs' = [objs EXCEPT ![o] = ackedSession(objs[o])]
                    /\ timers' = scheduleTrigger(timers, sid)
                    /\ acked' = [acked EXCEPT ![o] = @ \cup {aiId}]
               ELSE UNCHANGED <<objs, timers, acked>>
    /\ lastOp' = Op("audio_playback_complete", sid, 0, aiId)
    /\ UNCHANGED <<sessions, memories, arrays, creating, turns, budget, deepgram,
                   fnIn, fnOut>>

\* the decision request of turn k settles; continueConversation runs on to its
\* next suspension
DecisionArrives(k, outcome) ==
    /\ turns[k].pc = "deciding"
    /\ \E d \in {decideAndGenerateResponse(outcome, objs[turns[k].obj].agents,
                                           fullHistoryOf(turns[k]),
                                           getMessages(turns[k].sid))} :
       \E trn \in {[turns[k] EXCEPT !.decision = d]} :
       LET o       == trn.obj
           idle    == [objs EXCEPT ![o].isProcessing = FALSE]
           started == <<Ev("ai_thinking", NoAgent, o), Ev("ai_response_start", d.speaker, o)>>
       IN  /\ IF d.speaker = UserSpeaker
              THEN /\ objs' = idle
                   /\ turns' = [turns EXCEPT ![k] = [trn EXCEPT !.pc = "returned"]]
                   /\ emitted' = <<Ev("user_turn", NoAgent, o)>>
                   /\ UNCHANGED <<memories, arrays>>
              ELSE IF findIndex(objs[o].agents, d.speaker) < 0
              THEN /\ objs' = idle
                   /\ turns' = [turns EXCEPT ![k] = [trn EXCEPT !.pc = "returned"]]
                   /\ emitted' = <<>>
                   /\ UNCHANGED <<memories, arrays>>
              ELSE IF d.response # Null /\ trim(d.response) # <<>>
              THEN \E withText \in {[trn EXCEPT !.fullResponse = d.response]} :
                      afterText(k, withText, objs,
                                started \o <<Ev("ai_response_chunk", d.speaker, o)>>)
              ELSE /\ turns' = [turns EXCEPT ![k] = [trn EXCEPT !.pc = "streaming"]]
                   /\ emitted' = started
                   /\ UNCHANGED <<objs, memories, arrays>>
           /\ lastOp' = Op("decision", trn.sid, k, d.speaker)
    /\ UNCHANGED <<sessions, creating, timers, acked, budget, deepgram, fnIn, fnOut>>

\* streamChatCompletion delivers a fragment
StreamChunk(k, chunk) ==
    /\ turns[k].pc = "streaming"
    /\ turns[k].nChunks < MaxStreamChunks
    /\ turns' = [turns EXCEPT ![k].fullResponse = @ \o chunk, ![k].nChunks = @ + 1]
    /\ emitted' = <<Ev("ai_response_chunk", turns[k].decision.speaker, turns[k].obj)>>
    /\ lastOp' = Op("stream_chunk", turns[k].sid, k, turns[k].decision.speaker)
    /\ UNCHANGED <<sessions, objs, memories, arrays, creating, timers, acked, budget,
                   deepgram, fnIn, fnOut>>

\* the stream ends: onComplete, then continueConversation resumes
StreamComplete(k) ==
    /\ turns[k].pc = "streaming"
    /\ afterText(k, turns[k], objs, <<>>)
    /\ lastOp' = Op("stream_complete", turns[k].sid, k, turns[k].decision.speaker)
    /\ UNCHANGED <<sessions, creating, timers, acked, budget, deepgram, fnIn, fnOut>>

\* the stream throws: onError, streamChatCompletion returns normally and
\* continueConversation resumes
StreamError(k) ==
    /\ turns[k].pc = "streaming"
    /\ afterText(k, [turns[k] EXCEPT !.streamFailed = TRUE],
                 [objs EXCEPT ![turns[k].obj].isProcessing = FALSE],
                 <<Ev("error", turns[k].decision.speaker, turns[k].obj)>>)
    /\ lastOp' = Op("stream_error", turns[k].sid, k, turns[k].decision.speaker)
    /\ UNCHANGED <<sessions, creating, timers, acked, budget, deepgram, fnIn, fnOut>>

\* the speech connection opens: text sent, flush requested, the 30 s timer set,
\* streamTextToSpeech returns and continueConversation finishes
TtsOpened(k) ==
    /\ turns[k].pc = "ttsOpening"
    /\ finishTurn(k, [turns[k] EXCEPT !.conn = "open", !.ttsTimer = TRUE], objs, <<>>)
    /\ lastOp' = Op("tts_open", turns[k].sid, k, turns[k].decision.speaker)
    /\ UNCHANGED <<sessions, memories, arrays, creating, timers, acked, budget,
                   deepgram, fnIn, fnOut>>

\* the speech connection reports an error before opening, or does not open
\* within 5 s: the renderer's error callback only logs
TtsOpenFailed(k, why) ==
    /\ turns[k].pc = "ttsOpening"
    /\ finishTurn(k, [turns[k] EXCEPT !.conn = "failed"], objs, <<>>)
    /\ lastOp' = Op(why, turns[k].sid, k, turns[k].decision.speaker)
    /\ UNCHANGED <<sessions, memories, arrays, creating, timers, acked, budget,
                   deepgram, fnIn, fnOut>>

\* every chunk sent with the container header
onAudioChunkHeaderAlways(trn) ==
    (IF trn.firstAudioChunk /\ ~trn.ttsFirstAudioSent
     THEN <<Ev("tts_first_audio", trn.decision.speaker, trn.obj)>> ELSE <<>>)
        \o <<AudioEv(trn.decision.speaker, trn.obj, "header+pcm")>>

\* the events onAudioChunk sends for one chunk
onAudioChunk(trn) ==
    IF trn.firstAudioChunk
    THEN (IF trn.ttsFirstAudioSent THEN <<>>
          ELSE <<Ev("tts_first_audio", trn.decision.speaker, trn.obj)>>)
         \o <<AudioEv(trn.decision.speaker, trn.obj, "header+pcm")>>
    ELSE <<AudioEv(trn.decision.speaker, trn.obj, "pcm")>>

\* an Audio event of the connection: onAudioChunk
TtsAudio(k) ==
    /\ turns[k].conn = "open"
    /\ ~turns[k].flushed
    /\ turns[k].nAudio < MaxAudioChunks
    /\ LET trn == turns[k]
           a   == trn.decision.speaker
       IN  /\ turns' = [turns EXCEPT ![k].firstAudioChunk = FALSE,
                                     ![k].ttsFirstAudioSent = @ \/ trn.firstAudioChunk,
                                     ![k].nAudio = @ + 1]
           /\ emitted' = onAudioChunk(trn)
           /\ lastOp' = Op("tts_audio", trn.sid, k, a)
    /\ UNCHANGED <<sessions, objs, memories, arrays, creating, timers, acked, budget,
                   deepgram, fnIn, fnOut>>

\* an Error event of the open connection: the renderer's error callback logs
TtsError(k) ==
    /\ turns[k].conn = "open"
    /\ ~turns[k].flushed
    /\ emitted' = <<>>
    /\ lastOp' = Op("tts_error", turns[k].sid, k, turns[k].decision.speaker)
    /\ UNCHANGED <<sessions, objs, memories, arrays, creating, timers, turns, acked,
                   budget, deepgram, fnIn, fnOut>>

\* a completion without the flushed guard
ttsCompleteUnguarded(k, trn) ==
    /\ turns' = [turns EXCEPT ![k] = [trn EXCEPT !.flushed = TRUE, !.nAudioEnd = @ + 1]]
    /\ emitted' = <<Ev("ai_audio_end", trn.decision.speaker, trn.obj)>>

\* the completion of the render: connection.finish() and onComplete
ttsComplete(k, trn) ==
    IF trn.flushed
    THEN /\ turns' = [turns EXCEPT ![k] = trn]
         /\ emitted' = <<>>
    ELSE /\ turns' = [turns EXCEPT ![k] = [trn EXCEPT !.flushed = TRUE,
                                                     !.nAudioEnd = @ + 1]]
         /\ emitted' = <<Ev("ai_audio_end", trn.decision.speaker, trn.obj)>>

\* a Flushed event of the connection
TtsFlushed(k) ==
    /\ turns[k].conn = "open"
    /\ ttsComplete(k, turns[k])
    /\ lastOp' = Op("tts_flushed", turns[k].sid, k, turns[k].decision.speaker)
    /\ UNCHANGED <<sessions, objs, memories, arrays, creating, timers, acked, budget,
                   deepgram, fnIn, fnOut>>

\* the 30 s timer set after the flush request fires
TtsTimeout(k) ==
    /\ turns[k].ttsTimer
    /\ ttsComplete(k, [turns[k] EXCEPT !.ttsTimer = FALSE])
    /\ lastOp' = Op("tts_timeout", turns[k].sid, k, turns[k].decision.speaker)
    /\ UNCHANGED <<sessions, objs, memories, arrays, creating, timers, acked, budget,
                   deepgram, fnIn, fnOut>>

-----------------------------------------------------------------------------
(* The controller with its providers and clients                           *)

\* the session ids of the runs in which two clients are served
TwoSessionIds == SessionIds \cup {"s2"}

NoSessions == [sid \in TwoSessionIds |-> 0]

InitController ==
    /\ sessions = NoSessions
    /\ objs = <<>>
    /\ memories = NoSessions
    /\ arrays = <<>>
    /\ creating = NoSessions
    /\ timers = NoSessions
    /\ turns = <<>>
    /\ emitted = <<>>
    /\ lastOp = Op("init", "", 0, NoAgent)
    /\ acked = <<>>

Init ==
    /\ InitController
    /\ budget = [creates |-> MaxCreates, msgs |-> MaxUserMsgs, turns |-> MaxTurns]
    /\ deepgram \in BOOLEAN
    /\ fnIn = <<>>
    /\ fnOut = <<>>

Next ==
    \/ \E sid \in SessionIds, fieldsOk \in BOOLEAN : StartSession(sid, fieldsOk)
    \/ \E sid \in SessionIds, agents \in GeneratedRosters : AgentsGenerated(sid, agents)
    \/ \E sid \in SessionIds : AgentsFailed(sid)
    \/ \E sid \in SessionIds : DeleteSession(sid)
    \/ \E sid \in SessionIds : TimerFires(sid)
    \/ \E sid \in SessionIds, content \in UserTexts : UserMessage(sid, content)
    \/ \E sid \in SessionIds, aiId \in AckIds : AudioPlaybackComplete(sid, aiId)
    \/ \E k \in DOMAIN turns, outcome \in DecisionOutcomes : DecisionArrives(k, outcome)
    \/ \E k \in DOMAIN turns, chunk \in StreamChunkTexts : StreamChunk(k, chunk)
    \/ \E k \in DOMAIN turns : StreamComplete(k)
    \/ \E k \in DOMAIN turns : StreamError(k)
    \/ \E k \in DOMAIN turns : TtsOpened(k)
    \/ \E k \in DOMAIN turns, why \in {"tts_open_error", "tts_open_timeout"} :
            TtsOpenFailed(k, why)
    \/ \E k \in DOMAIN turns : TtsAudio(k)
    \/ \E k \in DOMAIN turns : TtsError(k)
    \/ \E k \in DOMAIN turns : TtsFlushed(k)
    \/ \E k \in DOMAIN turns : TtsTimeout(k)

Spec == Init /\ [][Next]_vars

\* The process started without DEEPGRAM_API_KEY: createTTSConnection throws in
\* every turn, so no speech connection is ever opened
InitNoKey ==
    /\ InitController
    /\ budget = [creates |-> MaxCreates, msgs |-> MaxUserMsgs, turns |-> MaxTurnsNoKey]
    /\ deepgram = FALSE
    /\ fnIn = <<>>
    /\ fnOut = <<>>

NextNoKey ==
    \/ \E sid \in SessionIds, fieldsOk \in BOOLEAN : StartSession(sid, fieldsOk)
    \/ \E sid \in SessionIds, agents \in GeneratedRosters : AgentsGenerated(sid, agents)
    \/ \E sid \in SessionIds : AgentsFailed(sid)
    \/ \E sid \in SessionIds : DeleteSession(sid)
    \/ \E sid \in SessionIds : TimerFires(sid)
    \/ \E sid \in SessionIds, content \in UserTexts : UserMessage(sid, content)
    \/ \E sid \in SessionIds, aiId \in AckIds : AudioPlaybackComplete(sid, aiId)
    \/ \E k \in DOMAIN turns, outcome \in DecisionOutcomes : DecisionArrives(k, outcome)
    \/ \E k \in DOMAIN turns, chunk \in StreamChunkTexts : StreamChunk(k, chunk)
    \/ \E k \in DOMAIN turns : StreamComplete(k)
    \/ \E k \in DOMAIN turns : StreamError(k)

SpecNoKey == InitNoKey /\ [][NextNoKey]_vars

-----------------------------------------------------------------------------
(* The controller under fair scheduling: timers fire and every provider    *)
(* request is eventually answered or fails                                 *)

\* turns of a fair run
MaxTurnsFair == 1

InitFair ==
    /\ InitController
    /\ budget = [creates |-> MaxCreates, msgs |-> MaxUserMsgs, turns |-> MaxTurnsFair]
    /\ deepgram \in BOOLEAN
    /\ fnIn = <<>>
    /\ fnOut = <<>>

Fairness ==
    /\ \A sid \in SessionIds : WF_vars(TimerFires(sid))
    /\ \A k \in 1..MaxTurnsFair :
          /\ WF_vars(k \in DOMAIN turns /\ \E outcome \in DecisionOutcomes :
                                            DecisionArrives(k, outcome))
          /\ WF_vars(k \in DOMAIN turns /\ (StreamComplete(k) \/ StreamError(k)))
          /\ WF_vars(k \in DOMAIN turns
                        /\ (TtsOpened(k) \/ TtsOpenFailed(k, "tts_open_timeout")))
          /\ WF_vars(k \in DOMAIN turns /\ TtsTimeout(k))

SpecFair == InitFair /\ [][Next]_vars /\ Fairness

-----------------------------------------------------------------------------
(* Two session ids served by one process without a speech API key, the     *)
(* provider answering every decision request with a parseable text; a      *)
(* session id may be started twice                                         *)

MaxCreatesTwo == 2

MaxTurnsTwo == 2

\* what the provider may answer to the decision request in these runs
TwoDecisionOutcomes == {ProviderText(txtUserTurn), ProviderText(txtAgent(Al))}

\* what the clients may name in audio_playback_complete in these runs
TwoAckIds == {Al.id}

InitTwo ==
    /\ InitController
    /\ budget = [creates |-> MaxCreatesTwo, msgs |-> MaxUserMsgs, turns |-> MaxTurnsTwo]
    /\ deepgram = FALSE
    /\ fnIn = <<>>
    /\ fnOut = <<>>

NextTwo ==
    \/ \E sid \in TwoSessionIds, fieldsOk \in BOOLEAN : StartSession(sid, fieldsOk)
    \/ \E sid \in TwoSessionIds, agents \in GeneratedRosters : AgentsGenerated(sid, agents)
    \/ \E sid \in TwoSessionIds : AgentsFailed(sid)
    \/ \E sid \in TwoSessionIds : DeleteSession(sid)
    \/ \E sid \in TwoSessionIds : TimerFires(sid)
    \/ \E sid \in TwoSessionIds, content \in UserTexts : UserMessage(sid, content)
    \/ \E sid \in TwoSessionIds, aiId \in TwoAckIds : AudioPlaybackComplete(sid, aiId)
    \/ \E k \in DOMAIN turns, outcome \in TwoDecisionOutcomes : DecisionArrives(k, outcome)

SpecTwo == InitTwo /\ [][NextTwo]_vars

-----------------------------------------------------------------------------
(* One session without a speech API key whose client acknowledges every    *)
(* agent turn; timers fire and every decision request is answered          *)

\* turns of a run with an acknowledging client
MaxTurnsAcked == 2

InitAcked ==
    /\ InitController
    /\ budget = [creates |-> MaxCreates, msgs |-> MaxUserMsgs, turns |-> MaxTurnsAcked]
    /\ deepgram = FALSE
    /\ fnIn = <<>>
    /\ fnOut = <<>>

NextAcked ==
    \/ \E sid \in SessionIds, fieldsOk \in BOOLEAN : StartSession(sid, fieldsOk)
    \/ \E sid \in SessionIds, agents \in GeneratedRosters : AgentsGenerated(sid, agents)
    \/ \E sid \in SessionIds : AgentsFailed(sid)
    \/ \E sid \in SessionIds : DeleteSession(sid)
    \/ \E sid \in SessionIds : TimerFires(sid)
    \/ \E sid \in SessionIds, content \in UserTexts : UserMessage(sid, content)
    \/ \E sid \in SessionIds, aiId \in TwoAckIds : AudioPlaybackComplete(sid, aiId)
    \/ \E k \in DOMAIN turns, outcome \in TwoDecisionOutcomes : DecisionArrives(k, outcome)

\* the client sends the ack the session waits for
AwaitedAckArrives(sid) ==
    /\ sessions[sid] # 0
    /\ \E aiId \in TwoAckIds :
          /\ awaitedAck(objs[sessions[sid]], aiId)
          /\ AudioPlaybackComplete(sid, aiId)

FairnessAcked ==
    /\ \A sid \in SessionIds : WF_vars(TimerFires(sid)) /\ WF_vars(AwaitedAckArrives(sid))
    /\ \A k \in 1..MaxTurnsAcked :
          WF_vars(k \in DOMAIN turns /\ \E outcome \in TwoDecisionOutcomes :
                                            DecisionArrives(k, outcome))

SpecAcked == InitAcked /\ [][NextAcked]_vars /\ FairnessAcked

-----------------------------------------------------------------------------
(* One session id registered again while the earlier session still has a   *)
(* turn in flight: start_session with a sessionId the client chooses        *)

\* createSession calls of a run that registers an id again
MaxCreatesRestart == 2
\* turns of such a run
MaxTurnsRestart == 2

\* rosters generateAgents returns for the scenarios of the two calls
RestartRosters == {<<Al, Bo>>, <<Bo>>}

\* what the provider answers to a decision request
RestartDecisionOutcomes ==
    {ProviderText(txtUserTurn), ProviderText(txtEnd), ProviderText(txtAgent(Al)),
     ProviderText(txtAgentEnd(Al))}

InitRestart ==
    /\ InitController
    /\ budget = [creates |-> MaxCreatesRestart, msgs |-> MaxUserMsgs,
                 turns |-> MaxTurnsRestart]
    /\ deepgram = FALSE
    /\ fnIn = <<>>
    /\ fnOut = <<>>

NextRestart ==
    \/ \E sid \in SessionIds, fieldsOk \in BOOLEAN : StartSession(sid, fieldsOk)
    \/ \E sid \in SessionIds, agents \in RestartRosters : AgentsGenerated(sid, agents)
    \/ \E sid \in SessionIds : AgentsFailed(sid)
    \/ \E sid \in SessionIds : DeleteSession(sid)
    \/ \E sid \in SessionIds : TimerFires(sid)
    \/ \E sid \in SessionIds, content \in UserTexts : UserMessage(sid, content)
    \/ \E sid \in SessionIds, aiId \in TwoAckIds : AudioPlaybackComplete(sid, aiId)
    \/ \E k \in DOMAIN turns, outcome \in RestartDecisionOutcomes : DecisionArrives(k, outcome)

SpecRestart == InitRestart /\ [][NextRestart]_vars

-----------------------------------------------------------------------------
(* The decision engine alone: decideAndGenerateResponse and                *)
(* fallbackDecision applied to a roster, a history and a provider outcome  *)

Cy == [id |-> <<"C","y","_","Q">>, name |-> <<"C","y">>, gender |-> "female"]

DecideRosters == {<<Al>>, <<Al, Bo>>, <<Bo, Al>>, <<Al, Bo, Cy>>}

HistoryEntries ==
    {Message("user", <<"o","k">>, NoAgent)}
        \cup {Message("assistant", txtHi, a.id) : a \in {Al, Bo, Cy}}

\* the system message of initializeSession, then at most MaxHistory messages
Histories ==
    {<<Message("system", systemContent, NoAgent)>> \o h :
        h \in UNION {[1..n -> HistoryEntries] : n \in 0..MaxHistory}}

\* an agent response naming an id that no roster holds
txtAgentUnknown == kAGENT \o <<"Z","z","\n">> \o txtHi

DecideOutcomes ==
    DecisionOutcomes
        \cup {ProviderNull, ProviderText(txtAgent(Bo)),
              ProviderText(txtAgentUnknown), ProviderText(txtAgentEnd(Bo)),
              ProviderText(<<" ","u","s","e","r","\n">>)}

NotComputed == [decision |-> <<>>, fallback |-> <<>>]

InitDecide ==
    /\ InitController
    /\ budget = [creates |-> 0, msgs |-> 0, turns |-> 0]
    /\ deepgram = FALSE
    /\ fnIn \in [agents : DecideRosters, history : Histories, outcome : DecideOutcomes]
    /\ fnOut = NotComputed

Decide ==
    /\ fnOut.decision = <<>>
    /\ fnOut' = [fnOut EXCEPT !.decision =
                    <<decideAndGenerateResponse(fnIn.outcome, fnIn.agents,
                                                fnIn.history, fnIn.history)>>]
    /\ UNCHANGED <<ctlVars, fnIn>>

Fallback ==
    /\ fnOut.fallback = <<>>
    /\ fnOut' = [fnOut EXCEPT !.fallback = <<fallbackDecision(fnIn.agents, fnIn.history)>>]
    /\ UNCHANGED <<ctlVars, fnIn>>

NextDecide == Decide \/ Fallback

SpecDecide == InitDecide /\ [][NextDecide]_vars

-----------------------------------------------------------------------------
(* The cleaning of an agent response: decideAndGenerateResponse applied to  *)
(* AGENT:<roster id> followed by a body assembled from fragments            *)

\* fragments of a body, at most
MaxBodyTokens == 3

Alice == [id |-> <<"A","l","i","c","e","_","C","o","a","c","h">>,
          name |-> <<"A","l","i","c","e">>, gender |-> "female"]

\* the prefix the engine puts before an agent's lines in the prompt
txtLabel == <<"[">> \o Alice.name \o <<" ","-"," ">> \o Alice.id \o <<"]",":"," ">>

txtGoodJob == <<"G","o","o","d"," ","j","o","b">>

BodyTokens == {txtLabel, kUSER, <<"G">>, <<" ">>, <<":">>, <<"[","a","]">>}

RECURSIVE Concat(_)
Concat(ts) == IF ts = <<>> THEN <<>> ELSE Head(ts) \o Concat(Tail(ts))

Bodies ==
    {txtLabel \o txtGoodJob}
        \cup {Concat(ts) : ts \in UNION {[1..n -> BodyTokens] : n \in 0..MaxBodyTokens}}

CleanOutcomes == {ProviderText(kAGENT \o Alice.id \o <<"\n">> \o b) : b \in Bodies}

InitClean ==
    /\ InitController
    /\ budget = [creates |-> 0, msgs |-> 0, turns |-> 0]
    /\ deepgram = FALSE
    /\ fnIn \in [agents : {<<Alice, Bo>>},
                 history : {<<Message("system", systemContent, NoAgent)>>},
                 outcome : CleanOutcomes]
    /\ fnOut = NotComputed

SpecClean == InitClean /\ [][NextDecide]_vars

-----------------------------------------------------------------------------
(* The roster: generateAgents applied to the list of participants the      *)
(* provider returned, and the voice each roster entry speaks with          *)

\* participants of a list the provider returns, at most
MaxProposed == 4

\* replace(/\s+/g, '_')
RECURSIVE collapseWhitespace(_)
collapseWhitespace(t) ==
    IF t = <<>> THEN <<>>
    ELSE IF Head(t) \in Whitespace
         THEN <<"_">> \o collapseWhitespace(DropFirst(t, wsRun(t)))
         ELSE <<Head(t)>> \o collapseWhitespace(Tail(t))

\* replace(/\s+/g, '_').replace(/[^a-zA-Z0-9_]/g, '')
cleanForId(t) == SelectSeq(collapseWhitespace(t), IsWordChar)

\* `${cleanName}_${cleanRole}`
agentIdOf(name, designation) == cleanForId(name) \o <<"_">> \o cleanForId(designation)

\* one entry of formattedAgents
formatAgent(agent) ==
    [id |-> agentIdOf(agent.name, agent.designation), name |-> agent.name,
     designation |-> agent.designation,
     gender |-> IF agent.gender = "" THEN "female" ELSE agent.gender]

\* the result of generateAgents: a roster, or an error thrown to createSession
Roster(agents) == [threw |-> FALSE, agents |-> agents]

RosterError == [threw |-> TRUE, agents |-> <<>>]

sameNameAsUser(agent, userName) ==
    trim(toLowerCase(agent.name)) = trim(toLowerCase(userName))

\* the entries of agents that do not carry the user's name, in order
RECURSIVE filterUserName(_, _)
filterUserName(agents, userName) ==
    IF agents = <<>> THEN <<>>
    ELSE (IF sameNameAsUser(Head(agents), userName) THEN <<>> ELSE <<Head(agents)>>)
            \o filterUserName(Tail(agents), userName)

\* generateAgents from the parsed array on
generateAgents(proposed, userName) ==
    IF \E i \in DOMAIN proposed : proposed[i].name = <<>> \/ proposed[i].designation = <<>>
    THEN RosterError
    ELSE LET formattedAgents ==
                 filterUserName([i \in DOMAIN proposed |-> formatAgent(proposed[i])],
                                userName)
         IN  IF Len(formattedAgents) = 0 THEN RosterError ELSE Roster(formattedAgents)

\* TTSService.voiceModels
voiceModels ==
    [female |-> <<"aura-2-thalia-en", "aura-2-amalthea-en", "aura-2-andromeda-en">>,
     male   |-> <<"aura-2-arcas-en", "aura-2-orpheus-en", "aura-2-zeus-en">>]

\* the voice model of the turn in which agentId speaks: the roster position
\* modulo 3 in continueConversation, the model array in createTTSConnection
voiceOf(agents, agentId) ==
    LET agentIndex == findIndex(agents, agentId)
        agentGender == agents[agentIndex + 1].gender
        voiceIndex == IF agentIndex >= 0 THEN agentIndex % 3 ELSE 0
        voiceArray == IF agentGender \in DOMAIN voiceModels
                      THEN voiceModels[agentGender] ELSE voiceModels.female
        modelIndex == IF voiceIndex < Len(voiceArray) - 1
                      THEN voiceIndex ELSE Len(voiceArray) - 1
    IN  voiceArray[modelIndex + 1]

Proposal(name, designation, gender) ==
    [name |-> name, designation |-> designation, gender |-> gender]

\* participants the provider may propose
Proposals ==
    {Proposal(<<"A"," ","B">>, <<"C">>, "female"),
     Proposal(<<"A">>, <<"B"," ","C">>, "female"),
     Proposal(<<"B","o">>, <<"M">>, "male"),
     Proposal(<<"C","y">>, <<"Q","!">>, "female"),
     Proposal(<<"a","l"," ">>, <<"X">>, ""),
     Proposal(<<"D","i">>, <<>>, "female")}

ProposedLists == UNION {[1..n -> Proposals] : n \in 0..MaxProposed}

RosterNotComputed == [roster |-> <<>>, voices |-> <<>>]

InitRoster ==
    /\ InitController
    /\ budget = [creates |-> 0, msgs |-> 0, turns |-> 0]
    /\ deepgram = TRUE
    /\ fnIn \in [proposed : ProposedLists, userName : {<<"A","l">>}]
    /\ fnOut = RosterNotComputed

GenerateAgents ==
    /\ fnOut.roster = <<>>
    /\ fnOut' = [fnOut EXCEPT !.roster = <<generateAgents(fnIn.proposed, fnIn.userName)>>]
    /\ UNCHANGED <<ctlVars, fnIn>>

\* every roster entry speaks once
SelectVoices ==
    /\ fnOut.roster # <<>>
    /\ ~fnOut.roster[1].threw
    /\ fnOut.voices = <<>>
    /\ fnOut' = [fnOut EXCEPT !.voices =
                    <<[i \in DOMAIN fnOut.roster[1].agents |->
                          voiceOf(fnOut.roster[1].agents, fnOut.roster[1].agents[i].id)]>>]
    /\ UNCHANGED <<ctlVars, fnIn>>

NextRoster == GenerateAgents \/ SelectVoices

SpecRoster == InitRoster /\ [][NextRoster]_vars

-----------------------------------------------------------------------------
(* The container header: createWavHeader, read back field by field as a    *)
(* decoder of the stream reads it                                          *)

\* the bytes of Buffer.from([...]) in createWavHeader
createWavHeader ==
    <<82, 73, 70, 70,        \* "RIFF"
      0, 0, 0, 0,            \* file size placeholder
      87, 65, 86, 69,        \* "WAVE"
      102, 109, 116, 32,     \* "fmt "
      16, 0, 0, 0,           \* chunk size
      1, 0,                  \* audio format
      1, 0,                  \* channels
      128, 187, 0, 0,        \* sample rate: 0x80, 0xbb, 0x00, 0x00
      0, 238, 2, 0,          \* byte rate: 0x00, 0xee, 0x02, 0x00
      2, 0,                  \* block align
      16, 0,                 \* bits per sample
      100, 97, 116, 97,      \* "data"
      0, 0, 0, 0>>           \* data size placeholder

\* the unsigned little-endian integer of width bytes at a 0-based offset
RECURSIVE readUIntLE(_, _, _)
readUIntLE(buffer, offset, width) ==
    IF width = 0 THEN 0
    ELSE buffer[offset + 1] + 256 * readUIntLE(buffer, offset + 1, width - 1)

Field(offset, width) == [offset |-> offset, width |-> width]

\* the fields a decoder may read: 1, 2 or 4 bytes inside the header, of a
\* value below 2^31
Fields ==
    {f \in [offset : 0..(Len(createWavHeader) - 1), width : {1, 2, 4}] :
        /\ f.offset + f.width <= Len(createWavHeader)
        /\ createWavHeader[f.offset + f.width] < 128}

NotRead == [read |-> FALSE, value |-> 0]

InitWav ==
    /\ InitController
    /\ budget = [creates |-> 0, msgs |-> 0, turns |-> 0]
    /\ deepgram = TRUE
    /\ fnIn \in Fields
    /\ fnOut = NotRead

ReadField ==
    /\ ~fnOut.read
    /\ fnOut' = [read |-> TRUE,
                 value |-> readUIntLE(createWavHeader, fnIn.offset, fnIn.width)]
    /\ UNCHANGED <<ctlVars, fnIn>>

SpecWav == InitWav /\ [][ReadField]_vars

-----------------------------------------------------------------------------
(* Properties                                                              *)

isAgentEntry(msg) == msg.role = "assistant" /\ msg.aiId # NoAgent

rosterIds(agents) == {agents[i].id : i \in DOMAIN agents}

LiveSessions == {sid \in SessionIds : sessions[sid] # 0}

LiveLogs == {arrays[memories[sid]] : sid \in {x \in SessionIds : memories[x] # 0}}

\* the turns of session object o whose handler has not returned: the decision,
\* the text or the opening of the speech connection is still awaited
inFlight(o) == {k \in DOMAIN turns : turns[k].obj = o /\ turns[k].pc # "returned"}

\* C1: at most one agent turn of a session is in flight at any instant; no
\* second continueConversation passes the busy guard while an earlier one has
\* not finished generating its text and starting its audio.
C1_OneTurnInFlight == \A o \in DOMAIN objs : Cardinality(inFlight(o)) <= 1

\* C2: whenever the decision is speaker = "end", conversation_ended is emitted
\* on the session's sink and the session is left not busy, not waiting.
C2_EndEmitsConversationEnded ==
    (lastOp.name = "decision" /\ turns[lastOp.turn].decision.speaker = EndSpeaker)
        => LET o == turns[lastOp.turn].obj
           IN  /\ \E i \in DOMAIN emitted :
                     emitted[i].type = "conversation_ended" /\ emitted[i].sink = o
               /\ ~objs[o].isProcessing
               /\ ~objs[o].waitingForAudioComplete

\* C3: in every reachable state of every session, currentSpeakingAgentId is
\* set to an agent id exactly when waitingForAudioComplete is true.
C3_SpeakerIffWaiting ==
    \A o \in DOMAIN objs :
        /\ (objs[o].currentSpeakingAgentId # NoAgent) <=> objs[o].waitingForAudioComplete
        /\ objs[o].waitingForAudioComplete
              => objs[o].currentSpeakingAgentId \in rosterIds(objs[o].agents)

C3_Witness ==
    \E o \in DOMAIN objs :
        /\ objs[o].waitingForAudioComplete
        /\ objs[o].currentSpeakingAgentId \in rosterIds(objs[o].agents)
        /\ acked[o] # {}

\* the step is the handling of audio_playback_complete(a) for session sid
isAckStep(sid, a) ==
    /\ lastOp'.name = "audio_playback_complete"
    /\ lastOp'.sid = sid
    /\ lastOp'.aiId = a
    /\ sessions[sid] # 0

\* C4: a second audio_playback_complete for agent X, delivered at any point
\* after X's turn was acknowledged, changes no turn flag and schedules no
\* trigger.
C4_SecondAckIsNoOp ==
    [][\A sid \in SessionIds, a \in AckIds :
          (isAckStep(sid, a) /\ a \in acked[sessions[sid]])
              => (objs' = objs /\ timers' = timers /\ turns' = turns)]_vars

\* C5: when the session waits for the playback ack of X and
\* audio_playback_complete(X) arrives, the session is Idle at once (not waiting,
\* no current speaker, not processing) and exactly one trigger is scheduled; the
\* trigger is a timer: no turn starts in the step of the ack, and the timer,
\* when it fires on the idle session, starts continueConversation.
C5_AckIdlesAndSchedulesOne ==
    [][/\ \A sid \in SessionIds, a \in AckIds :
            (/\ isAckStep(sid, a)
             /\ objs[sessions[sid]].waitingForAudioComplete
             /\ objs[sessions[sid]].currentSpeakingAgentId = a)
                => /\ ~objs'[sessions[sid]].waitingForAudioComplete
                   /\ objs'[sessions[sid]].currentSpeakingAgentId = NoAgent
                   /\ ~objs'[sessions[sid]].isProcessing
                   /\ timers' = [timers EXCEPT ![sid] = @ + 1]
                   /\ turns' = turns
       /\ \A sid \in SessionIds :
            (lastOp'.name = "timer" /\ lastOp'.sid = sid /\ passesGuards(sid))
                => /\ Len(turns') = Len(turns) + 1
                   /\ turns'[Len(turns')].pc = "deciding"
                   /\ turns'[Len(turns')].obj = sessions[sid]
                   /\ objs'[sessions[sid]].isProcessing
                   /\ timers' = [timers EXCEPT ![sid] = @ - 1]]_vars

\* an ack was accepted, its trigger fired and started the next turn
C5_Witness ==
    /\ lastOp.name = "timer"
    /\ lastOp.turn > 1
    /\ \E o \in DOMAIN objs : acked[o] # {} /\ objs[o].isProcessing
    /\ turns[Len(turns)].pc = "deciding"

\* C6: no two consecutive agent-attributed entries of a session's log carry
\* the same agent id.
C6_NoAgentTwiceInARow ==
    \A log \in LiveLogs :
        \A i \in 1..(Len(log) - 1) :
            (isAgentEntry(log[i]) /\ isAgentEntry(log[i + 1]))
                => log[i].aiId # log[i + 1].aiId

\* C7: a session's log never holds more than 3 consecutive agent-attributed
\* entries.
C7_AtMostThreeAgentTurns ==
    \A log \in LiveLogs :
        \A i \in 1..(Len(log) - 3) :
            ~(\A j \in i..(i + 3) : isAgentEntry(log[j]))

hasUtterance(history) == \E i \in DOMAIN history : history[i].role # "system"

\* C8: with no user or agent utterance in the log and a roster of 2 agents,
\* the decision selects a roster agent whatever the provider returned.
C8_EmptyLogSelectsAgent ==
    (fnOut.decision # <<>> /\ ~hasUtterance(fnIn.history) /\ Len(fnIn.agents) = 2)
        => fnOut.decision[1].speaker \in rosterIds(fnIn.agents)

\* C9: when the last log entry is user-authored, the decision selects an
\* agent, never the user again.
C9_AgentAnswersUser ==
    (fnOut.decision # <<>> /\ fnIn.history[Len(fnIn.history)].role = "user")
        => fnOut.decision[1].speaker \in rosterIds(fnIn.agents)

agentEntries(history) == {i \in DOMAIN history : isAgentEntry(history[i])}

lastSpeaker(history) == history[SetMax(agentEntries(history))].aiId

nextInRoster(agents, history) ==
    IF agentEntries(history) = {} \/ lastSpeaker(history) \notin rosterIds(agents)
    THEN agents[1].id
    ELSE LET i == CHOOSE j \in DOMAIN agents : agents[j].id = lastSpeaker(history)
         IN  agents[IF i = Len(agents) THEN 1 ELSE i + 1].id

\* the provider outcomes that are an error or cannot be parsed
Unparseable ==
    {ProviderThrow, ProviderNull, ProviderText(txtGarbage), ProviderText(txtAgentUnknown)}

containsLabel(t) == \E i \in 1..Len(t) : labelMatchLen(DropFirst(t, i - 1)) > 0

\* C12: for every provider response of the agent-marker shape that names a
\* roster agent, the text of the decision holds no bracketed speaker label and
\* no "USER:" marker; "AGENT:Alice_Coach\n[Alice - Alice_Coach]: Good job"
\* gives speaker Alice_Coach and text "Good job".
C12_TextHasNoMarkers ==
    (/\ fnOut.decision # <<>>
     /\ fnIn.outcome.kind = "text"
     /\ agentMatch(trim(fnIn.outcome.text))
     /\ agentMatchId(trim(fnIn.outcome.text)) \in rosterIds(fnIn.agents))
        => LET d == fnOut.decision[1]
           IN  /\ d.response # Null
                    => (~containsLabel(d.response) /\ ~includes(d.response, kUSER))
               /\ fnIn.outcome.text = kAGENT \o Alice.id \o <<"\n">> \o txtLabel \o txtGoodJob
                    => d = Decision(Alice.id, txtGoodJob, FALSE)

\* the example of C12: the label is stripped, the text is "Good job"
C12_Example ==
    /\ fnOut.decision # <<>>
    /\ fnIn.outcome.text = kAGENT \o Alice.id \o <<"\n">> \o txtLabel \o txtGoodJob
    /\ fnOut.decision[1] = Decision(Alice.id, txtGoodJob, FALSE)

\* C13: if the text stream fails (the error callback fires, no completion is
\* delivered), no entry is appended to the log for that turn, whether or not
\* fragments had been emitted.
C13_FailedStreamNotLogged ==
    [][lastOp'.name = "stream_error" => (arrays' = arrays /\ memories' = memories)]_vars

\* an event of the given type reaches the callbacks of session object o
emits(events, type, o) ==
    \E i \in DOMAIN events : events[i].type = type /\ events[i].sink = o

\* C14: when the text stream of a turn fails, an error event is emitted on the
\* session's sink and, once the turn's handler has returned, the session is
\* Idle: not processing and not waiting for a playback ack.
C14_StreamFailureIdles ==
    [][\A k \in DOMAIN turns :
          /\ (lastOp'.name = "stream_error" /\ lastOp'.turn = k)
                => emits(emitted', "error", turns[k].obj)
          /\ (/\ turns[k].pc # "returned"
              /\ turns'[k].pc = "returned"
              /\ turns'[k].streamFailed)
                => /\ ~objs'[turns[k].obj].isProcessing
                   /\ ~objs'[turns[k].obj].waitingForAudioComplete]_vars

\* the steps in which the speech renderer fails
RenderFailures == {"tts_open_error", "tts_open_timeout", "tts_error"}

\* C15: when the speech renderer fails for an utterance (the connection does
\* not open, times out, or reports an error), an error event is emitted on the
\* session's sink, and ai_response_end is still emitted for the turn.
C15_RenderFailureReported ==
    [][\A k \in DOMAIN turns :
          (lastOp'.name \in RenderFailures /\ lastOp'.turn = k)
              => /\ emits(emitted', "error", turns[k].obj)
                 /\ turns[k].pc = "ttsOpening"
                       => emits(emitted', "ai_response_end", turns[k].obj)]_vars

\* C16: for every render call whose connection opened and whose flush was
\* requested, the completion signal (ai_audio_end) is emitted exactly once,
\* whether Flushed arrives before the timeout, after it, several times or never:
\* never twice, and once as soon as Flushed arrived or the timeout fired.
C16_CompletionExactlyOnce ==
    \A k \in DOMAIN turns :
        /\ turns[k].nAudioEnd <= 1
        /\ (turns[k].conn = "open" /\ (turns[k].flushed \/ ~turns[k].ttsTimer))
              => turns[k].nAudioEnd = 1

\* Flushed arrives after the timeout has completed the render
C16_Witness ==
    /\ lastOp.name = "tts_flushed"
    /\ turns[lastOp.turn].conn = "open"
    /\ ~turns[lastOp.turn].ttsTimer
    /\ emitted = <<>>
    /\ turns[lastOp.turn].nAudioEnd = 1

\* turn k went through its whole handler as an agent turn and left the session
\* waiting for the playback ack
reachedAwaitingAck(k) ==
    /\ k \in DOMAIN turns
    /\ turns[k].pc = "returned"
    /\ findIndex(objs[turns[k].obj].agents, turns[k].decision.speaker) >= 0
    /\ ~turns[k].decision.shouldEnd

\* C17: every render call eventually emits the completion signal: for every
\* agent turn that reaches the wait for the playback ack, ai_audio_end is
\* eventually emitted, also when the connection fails to open or reports an
\* error.
C17_CompletionEventuallySent ==
    \A k \in 1..MaxTurnsFair :
        [](reachedAwaitingAck(k) => <>(k \in DOMAIN turns /\ turns[k].nAudioEnd > 0))

AudioEventTypes == {"tts_first_audio", "ai_audio_chunk"}

\* C18: for every utterance that is rendered to audio, tts_first_audio is
\* emitted exactly once, before the first ai_audio_chunk; only the first chunk
\* carries the container header, every later chunk is raw payload. (An
\* utterance of which no audio is delivered has no tts_first_audio.)
C18_FirstAudioOnceBeforeChunks ==
    [][/\ \A k \in DOMAIN turns :
            (lastOp'.name = "tts_audio" /\ lastOp'.turn = k)
                => LET a == turns[k].decision.speaker
                       o == turns[k].obj
                   IN  /\ turns'[k].nAudio = turns[k].nAudio + 1
                       /\ emitted' =
                             IF turns[k].nAudio = 0
                             THEN <<Ev("tts_first_audio", a, o),
                                    AudioEv(a, o, "header+pcm")>>
                             ELSE <<AudioEv(a, o, "pcm")>>
       /\ lastOp'.name # "tts_audio"
             => \A i \in DOMAIN emitted' : emitted'[i].type \notin AudioEventTypes]_vars

\* the second chunk of an utterance: raw payload, no second tts_first_audio
C18_Witness ==
    /\ lastOp.name = "tts_audio"
    /\ turns[lastOp.turn].nAudio = 2
    /\ turns[lastOp.turn].ttsFirstAudioSent
    /\ emitted = <<AudioEv(lastOp.aiId, turns[lastOp.turn].obj, "pcm")>>

\* the speech renderer of turn k was started: a connection was asked for, or
\* an audio event of the turn was emitted
renderStarted(k) ==
    turns[k].conn # "none" \/ turns[k].nAudio > 0 \/ turns[k].nAudioEnd > 0

\* every agent-attributed entry of every message array, as <<array, index>>
loggedUtterances ==
    UNION {{<<a, i>> : i \in agentEntries(arrays[a])} : a \in DOMAIN arrays}

\* C19: in every agent turn the utterance is appended to the log before the
\* speech renderer is started, and both before any ai_audio_chunk or
\* ai_audio_end of the turn: a turn whose renderer started or whose audio
\* events were emitted has its entry (agent id and text) in a message array,
\* one entry for each such turn.
C19_LoggedBeforeRendered ==
    /\ \A k \in DOMAIN turns :
          renderStarted(k)
              => \E p \in loggedUtterances :
                    arrays[p[1]][p[2]]
                        = Message("assistant", turns[k].fullResponse,
                                  turns[k].decision.speaker)
    /\ Cardinality({k \in DOMAIN turns : renderStarted(k)})
           <= Cardinality(loggedUtterances)

\* a turn whose audio was delivered and completed, its entry in the log
C19_Witness ==
    \E k \in DOMAIN turns :
        /\ turns[k].nAudio > 0
        /\ turns[k].nAudioEnd = 1
        /\ \E p \in loggedUtterances :
              arrays[p[1]][p[2]].aiId = turns[k].decision.speaker

\* the steps made by a callback of a turn: the decision result, the text
\* stream, the speech connection and its timers
CallbackOps ==
    {"decision", "stream_chunk", "stream_complete", "stream_error", "tts_open",
     "tts_open_error", "tts_open_timeout", "tts_audio", "tts_error", "tts_flushed",
     "tts_timeout"}

\* C20: after deleteSession(id), every decision result, stream callback, audio
\* callback or pending timer in flight for that session is a no-op: it emits no
\* event and neither appends to nor re-creates a log for id.
C20_CallbacksAfterDeleteAreNoOps ==
    [][/\ \A k \in DOMAIN turns :
            (/\ lastOp'.name \in CallbackOps
             /\ lastOp'.turn = k
             /\ sessions[turns[k].sid] # turns[k].obj)
                => (emitted' = <<>> /\ memories' = memories /\ arrays' = arrays)
       /\ \A sid \in SessionIds :
            (lastOp'.name = "timer" /\ lastOp'.sid = sid /\ sessions[sid] = 0)
                => (emitted' = <<>> /\ memories' = memories /\ arrays' = arrays
                    /\ turns' = turns)]_vars

\* log a is an initial part of log b
isPrefix(a, b) == Len(a) <= Len(b) /\ SubSeq(b, 1, Len(a)) = a

\* C21: the log is append-only: in every step other than deleteSession of the
\* session id, the log of the id before the step is a prefix of its log after
\* the step, also when start_session names an id already in use.
C21_LogAppendOnly ==
    [][\A sid \in TwoSessionIds :
          ~(lastOp'.name = "deleteSession" /\ lastOp'.sid = sid)
              => isPrefix(getMessages(sid), messagesOf(memories', arrays', sid))]_vars

\* the step is the handling of a message command for the existing session sid
isMessageStep(sid) == lastOp'.name = "message" /\ lastOp'.sid = sid

isRejection(sid) ==
    /\ lastOp'.sid = sid
    /\ \/ lastOp'.name = "start_session_rejected"
       \/ (lastOp'.name \in {"message_rejected", "audio_playback_complete"}
             /\ sessions[sid] = 0)

\* C23: structural errors are answered with an error to the caller and leave
\* all state unchanged: a creation with a missing field creates no session and
\* no log; a message or audio_playback_complete for an unknown session id
\* appends to no log, changes no flag and creates no session.
C23_RejectionsChangeNothing ==
    [][\A sid \in SessionIds :
          isRejection(sid)
              => /\ emitted' = <<Ev("error", NoAgent, 0)>>
                 /\ UNCHANGED <<sessions, objs, memories, arrays, creating, timers,
                                turns, acked>>]_vars

\* a message for a session id whose session was deleted is answered with an
\* error; the id has neither a session nor a log
C23_Witness ==
    /\ lastOp.name = "message_rejected"
    /\ emitted = <<Ev("error", NoAgent, 0)>>
    /\ Len(objs) > 0
    /\ sessions[lastOp.sid] = 0
    /\ memories[lastOp.sid] = 0

\* the positions of the roster entries of the given gender
ofGender(agents, gender) == {i \in DOMAIN agents : agents[i].gender = gender}

\* C24: voice selection maps (gender, roster position mod 3) to one of 3
\* voice identifiers of that gender such that, in every roster with at most 3
\* agents of a gender, at any positions and mixed with agents of the other
\* gender, any two distinct agents of that gender get distinct voices.
C24_SameGenderVoicesDistinct ==
    fnOut.voices # <<>> =>
        LET agents == fnOut.roster[1].agents
            voices == fnOut.voices[1]
        IN  \A gender \in DOMAIN voiceModels :
                /\ \A i \in ofGender(agents, gender) :
                      \E v \in DOMAIN voiceModels[gender] :
                          voices[i] = voiceModels[gender][v]
                /\ Cardinality(ofGender(agents, gender)) <= 3
                      => \A i, j \in ofGender(agents, gender) :
                            agents[i].id # agents[j].id => voices[i] # voices[j]

\* the (name, role) pairs of the proposed list are pairwise different
distinctPairs(proposed) ==
    \A i, j \in DOMAIN proposed :
        (proposed[i].name = proposed[j].name
            /\ proposed[i].designation = proposed[j].designation) => i = j

\* C25: the agent ids of a generated roster are derived from name and role
\* and are pairwise distinct: no two entries of the roster generateAgents
\* returns share an id, for every list of (name, role) pairs the provider may
\* return.
C25_RosterIdsDistinct ==
    (fnOut.roster # <<>> /\ ~fnOut.roster[1].threw /\ distinctPairs(fnIn.proposed))
        => LET agents == fnOut.roster[1].agents
           IN  /\ \A i \in DOMAIN agents :
                     agents[i].id = agentIdOf(agents[i].name, agents[i].designation)
               /\ \A i, j \in DOMAIN agents : agents[i].id = agents[j].id => i = j

\* the turns made for session id sid, in order
turnsOf(trns, sid) == SelectSeq(trns, LAMBDA t : t.sid = sid)

\* C26: sessions are independent: any operation on one session id (trigger,
\* user message, playback ack, provider callback, deletion) leaves the turn
\* flags, roster and log of every other session id unchanged, and a busy
\* session never causes a trigger for a different session to be dropped.
C26_SessionsIndependent ==
    [][\A sid \in TwoSessionIds : \A other \in TwoSessionIds \ {sid} :
          lastOp'.sid = sid
              => /\ sessions'[other] = sessions[other]
                 /\ memories'[other] = memories[other]
                 /\ messagesOf(memories', arrays', other) = getMessages(other)
                 /\ \A o \in DOMAIN objs : objs[o].sid = other => objs'[o] = objs[o]
                 /\ timers'[other] = timers[other]
                 /\ creating'[other] = creating[other]
                 /\ turnsOf(turns', other) = turnsOf(turns, other)
                 /\ (lastOp'.name \in {"timer", "message"} /\ passesGuards(sid))
                       => /\ Len(turns') = Len(turns) + 1
                          /\ turns'[Len(turns')].sid = sid
                          /\ turns'[Len(turns')].pc = "deciding"]_vars

\* a trigger of one session started a turn while the other session was busy
\* and had a user entry in its log
C26_Witness ==
    /\ lastOp.name = "timer"
    /\ lastOp.turn > 0
    /\ lastOp.turn = Len(turns)
    /\ turns[Len(turns)].sid = lastOp.sid
    /\ \E other \in TwoSessionIds \ {lastOp.sid} :
          /\ sessions[other] # 0
          /\ busy(objs[sessions[other]])
          /\ Len(getMessages(other)) > 1

\* session id sid has a session that is deciding, emitting text or awaiting
\* the playback ack
isBusy(sid) ==
    /\ sessions[sid] # 0
    /\ (objs[sessions[sid]].isProcessing \/ objs[sessions[sid]].waitingForAudioComplete)

\* C27: a turn trigger that arrives while the session is busy (isProcessing or
\* waitingForAudioComplete) is dropped and never queued: it requests no
\* decision, emits no event, leaves flags and log unchanged, and is not
\* replayed when the session later becomes Idle. (A user message is logged and
\* announced by processUserMessage; its trigger is dropped in the same way.)
\* A turn is started only by the step of a trigger that finds the session free.
C27_BusyTriggerDropped ==
    [][/\ \A sid \in SessionIds :
            /\ (lastOp'.name = "timer" /\ lastOp'.sid = sid /\ isBusy(sid))
                  => /\ turns' = turns
                     /\ emitted' = <<>>
                     /\ objs' = objs
                     /\ memories' = memories
                     /\ arrays' = arrays
                     /\ timers' = [timers EXCEPT ![sid] = @ - 1]
            /\ (isMessageStep(sid) /\ isBusy(sid))
                  => /\ turns' = turns
                     /\ objs' = objs
                     /\ timers' = timers
                     /\ emitted' = <<Ev("ai_thinking", NoAgent, sessions[sid])>>
       /\ turns' # turns /\ Len(turns') > Len(turns)
             => /\ lastOp'.name \in {"timer", "message"}
                /\ ~isBusy(lastOp'.sid)
                /\ Len(turns') = Len(turns) + 1]_vars

\* the session-start timer and a user message were both delivered, one of
\* them while the session was busy; the playback ack then freed the session,
\* and only one turn was ever started: the dropped trigger was not replayed
C27_Witness ==
    /\ lastOp.name = "audio_playback_complete"
    /\ \E sid \in SessionIds :
          /\ sessions[sid] # 0
          /\ ~busy(objs[sessions[sid]])
          /\ acked[sessions[sid]] # {}
          /\ timers[sid] = 1
          /\ budget.msgs = 0
          /\ Len(turns) = 1

\* C28: a playback-complete event whose agent id differs from the currently
\* tracked speaker, or that arrives while the session is not waiting for an
\* ack, is ignored: no turn flag changes and no turn trigger is scheduled.
C28_StrayAckIgnored ==
    [][\A sid \in SessionIds, a \in AckIds :
          (/\ isAckStep(sid, a)
           /\ \/ ~objs[sessions[sid]].waitingForAudioComplete
              \/ objs[sessions[sid]].currentSpeakingAgentId # a)
              => /\ objs' = objs
                 /\ timers' = timers
                 /\ turns' = turns
                 /\ emitted' = <<>>]_vars

\* an ack naming another agent than the awaited speaker left the session
\* waiting
C28_Witness ==
    /\ lastOp.name = "audio_playback_complete"
    /\ sessions[lastOp.sid] # 0
    /\ objs[sessions[lastOp.sid]].waitingForAudioComplete
    /\ objs[sessions[lastOp.sid]].currentSpeakingAgentId \notin {lastOp.aiId, NoAgent}
    /\ timers[lastOp.sid] = 0

\* C29: when the decision is "user", the controller returns to Idle
\* (isProcessing false, not waiting for audio), emits exactly one user_turn
\* event, and leaves the log unchanged; no agent event (ai_thinking,
\* ai_response_start, audio) is emitted for that decision.
C29_UserDecisionIdles ==
    [][\A k \in DOMAIN turns :
          (/\ lastOp'.name = "decision"
           /\ lastOp'.turn = k
           /\ turns'[k].decision.speaker = UserSpeaker)
              => /\ ~objs'[turns[k].obj].isProcessing
                 /\ ~objs'[turns[k].obj].waitingForAudioComplete
                 /\ emitted' = <<Ev("user_turn", NoAgent, turns[k].obj)>>
                 /\ memories' = memories
                 /\ arrays' = arrays]_vars

\* conversation_ended has been emitted on session object o: a turn of o whose
\* decision asked to end went through its handler
ended(o) ==
    \E k \in DOMAIN turns :
        /\ turns[k].obj = o
        /\ turns[k].pc = "returned"
        /\ turns[k].decision.shouldEnd
        /\ findIndex(objs[o].agents, turns[k].decision.speaker) >= 0

\* C30: Ended is terminal for the conversation flow: once conversation_ended
\* has been emitted for a session, no later event (user message, playback ack,
\* pending timer) starts another decision or agent turn in that session, while
\* the session itself stays registered until deleteSession.
C30_EndedIsTerminal ==
    [][\A o \in DOMAIN objs :
          ended(o)
              => /\ \A k \in DOMAIN turns' : turns'[k].obj = o => k \in DOMAIN turns
                 /\ \A sid \in SessionIds :
                       (sessions[sid] = o /\ sessions'[sid] # o)
                           => lastOp'.name = "deleteSession"]_vars

\* C31: for every provider response of the agent-marker shape, if the
\* extracted id is not a roster id or the cleaned body is empty, the engine
\* returns the round-robin fallback decision; hence every agent decision it
\* returns names a roster agent, including responses whose body carries an end
\* marker.
C31_AgentDecisionNamesRosterAgent ==
    (/\ fnOut.decision # <<>>
     /\ fnIn.outcome.kind = "text"
     /\ agentMatch(trim(fnIn.outcome.text)))
        => LET t == trim(fnIn.outcome.text)
               d == fnOut.decision[1]
           IN  /\ (\/ agentMatchId(t) \notin rosterIds(fnIn.agents)
                   \/ cleanAgentResponse(agentMatchBody(t)) = <<>>)
                     => d = Decision(nextInRoster(fnIn.agents, fnIn.history), Null, FALSE)
               /\ d.speaker \in rosterIds(fnIn.agents)

\* the fields of the format chunk of a canonical 44-byte header
fChannels == Field(22, 2)

fSampleRate == Field(24, 4)

fByteRate == Field(28, 4)

fBlockAlign == Field(32, 2)

fBitsPerSample == Field(34, 2)

headerField(f) == readUIntLE(createWavHeader, f.offset, f.width)

\* C32: the container header prefixed to the first audio chunk is internally
\* consistent for single-channel 16-bit 48kHz PCM: decoded little-endian,
\* channels = 1, sample rate = 48000, bits per sample = 16, block align =
\* channels x bits/8 = 2, and byte rate = sample rate x block align = 96000.
C32_HeaderConsistent ==
    fnOut.read =>
        /\ fnIn = fChannels => fnOut.value = 1
        /\ fnIn = fSampleRate => fnOut.value = 48000
        /\ fnIn = fBitsPerSample => fnOut.value = 16
        /\ fnIn = fBlockAlign
              => (fnOut.value = 2
                    /\ fnOut.value
                         = (headerField(fChannels) * headerField(fBitsPerSample)) \div 8)
        /\ fnIn = fByteRate
              => (fnOut.value = 96000
                    /\ fnOut.value = headerField(fSampleRate) * headerField(fBlockAlign))

\* C33: in every reachable state, waitingForAudioComplete true implies
\* isProcessing true: the busy flag stays held for the whole wait for the
\* playback ack, on every path into that wait, including a turn whose text
\* stream reported an error.
C33_WaitingImpliesProcessing ==
    \A o \in DOMAIN objs : objs[o].waitingForAudioComplete => objs[o].isProcessing

\* the events that tell the client how a turn went
TurnOutcomeEvents == {"user_turn", "ai_response_end", "conversation_ended", "error"}

\* C34: no silent stall: every turn trigger that passes the busy guard emits
\* at least one of user_turn, ai_response_end, conversation_ended or error on
\* the session's event sink before the controller is Idle again, for every
\* decision the engine can return (including speaker "end" and a speaker id
\* that is not in the roster): the handler of a turn does not return without
\* one of these events, in the step of its return or (error) earlier.
C34_NoSilentStall ==
    [][\A k \in DOMAIN turns :
          (turns[k].pc # "returned" /\ turns'[k].pc = "returned")
              => \/ \E i \in DOMAIN emitted' :
                       /\ emitted'[i].type \in TurnOutcomeEvents
                       /\ emitted'[i].sink = turns[k].obj
                 \/ turns[k].streamFailed]_vars

\* C35: no user message is lost to turn-taking: assuming the client
\* acknowledges every agent turn, every user message appended to the log is
\* eventually followed by a turn decision that started after the append, even
\* when the message arrived while the controller was busy and its own trigger
\* was dropped. (Runs in which the session is deleted, or in which the
\* environment has no turn left to give, are not counted against the claim.)
C35_UserMessageEventuallyRead ==
    \A sid \in SessionIds : \A n \in 1..(MaxTurnsAcked - 1) :
        []((/\ lastOp.name = "message"
            /\ lastOp.sid = sid
            /\ lastOp.turn = 0
            /\ Len(turns) = n)
              => <>(\/ Len(turns) > n
                    \/ Len(turns) >= budget.turns
                    \/ sessions[sid] = 0))

\* turn j has emitted its ai_response_start
responseStarted(j) ==
    /\ turns[j].pc # "deciding"
    /\ findIndex(objs[turns[j].obj].agents, turns[j].decision.speaker) >= 0

TurnAudioEvents == {"ai_audio_chunk", "ai_audio_end"}

\* C36: audio of different turns never interleaves on a session's event sink:
\* no ai_audio_chunk or ai_audio_end event of an earlier agent turn is emitted
\* after the ai_response_start of a later turn of the same session, whatever
\* the timing of the client's playback ack relative to the renderer's chunks,
\* flush and timeout.
C36_AudioNeverInterleaves ==
    [][\A k \in DOMAIN turns :
          (/\ lastOp'.turn = k
           /\ \E type \in TurnAudioEvents : emits(emitted', type, turns[k].obj))
             => ~\E j \in DOMAIN turns : /\ j > k
                                         /\ turns[j].obj = turns[k].obj
                                         /\ responseStarted(j)]_vars

\* C37: whenever no createSession call is in progress, the session registry
\* and the conversation memory hold the same set of session ids: a log exists
\* for an id if and only if a session is registered under it, including after
\* a failed agent generation and after deleteSession with a turn in flight.
C37_RegistryMatchesMemory ==
    (\A sid \in SessionIds : creating[sid] = 0)
        => \A sid \in SessionIds : (memories[sid] # 0) <=> (sessions[sid] # 0)

\* every agent-attributed entry of the log of a registered session names an
\* agent of that session's roster
entriesNameRoster ==
    \A sid \in SessionIds :
        sessions[sid] # 0 =>
            \A i \in agentEntries(getMessages(sid)) :
                getMessages(sid)[i].aiId \in rosterIds(objs[sessions[sid]].agents)

\* the decision of the step names "end", "user" or an id outside the roster
namesNoAgent ==
    /\ lastOp'.name = "decision"
    /\ \/ lastOp'.aiId \in {EndSpeaker, UserSpeaker}
       \/ findIndex(objs[turns[lastOp'.turn].obj].agents, lastOp'.aiId) < 0

\* C38: every agent-attributed entry in a session's log carries the id of an
\* agent in the roster of the session currently registered under that id; a
\* decision naming "end", "user" or an unknown id never produces a log entry.
C38_EntriesNameRosterAgents ==
    /\ []entriesNameRoster
    /\ [][namesNoAgent => UNCHANGED <<memories, arrays>>]_vars

====
